---- MODULE Spec2Model ----
(***************************************************************************)
(* A model of model/net.py: the DenseNetBase constructor and forward pass  *)
(* (shapes and channel counts of every module and tensor), the multi-label *)
(* loss loss_fn and the metrics accuracy, precision and recall.            *)
(*                                                                         *)
(* Tensors of the network are modelled by their shape.  The layers are     *)
(* modelled by the channel counts they were constructed with; a layer      *)
(* applied to a tensor whose channel count differs raises, as torch does.  *)
(*                                                                         *)
(* Real numbers are exact rationals.  The reduction factor is a pair       *)
(* <<num, den>>; logits and labels of the loss and the metrics are counted *)
(* in halves (the integer v stands for v/2), so that the threshold 0.5 is  *)
(* the integer 1.                                                          *)
(***************************************************************************)
EXTENDS Integers, Sequences, FiniteSets, TLC

VARIABLES
    params,       \* the Params object: growthRate, depth, reduction, bottleneck
    num_classes,  \* the constructor's second argument
    s,            \* shape of the input batch handed to forward
    pc,           \* position of the network's life: new, built, forward stages
    idx,          \* position inside the current dense block (1-based)
    net,          \* the modules __init__ built, by their channel counts
    out,          \* shape of the tensor `out` inside forward
    err,          \* the error raised, "" when none
    outputs,      \* loss/metrics argument: [shape, data]
    labels,       \* loss/metrics argument: [shape, data]
    called,       \* which of loss_fn/accuracy/precision/recall has run
    result        \* what that call produced

vars == <<params, num_classes, s, pc, idx, net, out, err,
          outputs, labels, called, result>>

netVars == <<params, num_classes, s, pc, idx, net, out, err>>
evalVars == <<outputs, labels, called, result>>

(***************************************************************************)
(* Bounds of the model.                                                    *)
(***************************************************************************)
MaxGrowth == 3
MaxDepth == 16
MaxBatch == 2
MaxClasses == 2
MaxElems == 3

\* forward's docstring: a batch of images of dimension batch_size x 128 x 192
NominalHeight == 128
NominalWidth == 192

Max(a, b) == IF a >= b THEN a ELSE b

Abs(a) == IF a >= 0 THEN a ELSE 0 - a

RECURSIVE Prod(_)
Prod(shape) == IF shape = <<>> THEN 1 ELSE Head(shape) * Prod(Tail(shape))

(***************************************************************************)
(* Configurations.  The constructor validates nothing, so depths below 4   *)
(* and reductions above 1 are inputs it accepts.  Reductions are dyadic,   *)
(* hence exact as floats: nChannels*reduction is computed without rounding.*)
(***************************************************************************)
Reductions == {<<1, 4>>, <<1, 2>>, <<3, 4>>, <<1, 1>>, <<2, 1>>}

BottleneckSettings == {"true", "false", "absent"}

SmallParams ==
    [growthRate : 1..MaxGrowth, depth : (-3)..MaxDepth,
     reduction : Reductions, bottleneck : BottleneckSettings]

\* the configuration of the channel-count derivation: depth 100, growth 12, 0.5
ReferenceParams ==
    [growthRate : {12}, depth : {100}, reduction : {<<1, 2>>},
     bottleneck : {"true"}]

InputSizes == {<<NominalHeight, NominalWidth>>, <<32, 32>>, <<8, 8>>}

(***************************************************************************)
(* DenseNetBase.__init__                                                   *)
(***************************************************************************)

\* bottleneck = params.bottleneck : the flag read from the configuration
BottleneckOfParams(p) == p.bottleneck = "true"

\* bottleneck = True #params.bottleneck
BottleneckFlag(p) == TRUE

\* nDenseBlocks = (depth-4) // 3 ; if bottleneck: nDenseBlocks //= 2
NDenseBlocks(depth, bottleneck) ==
    LET n == (depth - 4) \div 3
    IN  IF bottleneck THEN n \div 2 ELSE n

\* a stem of growthRate channels
InitialChannelsSingle(growthRate) == growthRate

\* nChannels = 2*growthRate
InitialChannels(growthRate) == 2 * growthRate

\* the channels of the layers a block really holds: range() of a negative is empty
BlockGrowthOfLayers(nDenseBlocks, growthRate) == Max(nDenseBlocks, 0) * growthRate

\* nChannels += nDenseBlocks*growthRate
BlockGrowth(nDenseBlocks, growthRate) == nDenseBlocks * growthRate

\* int(math.floor(nChannels*reduction))
ReducedChannels(nChannels, reduction) ==
    (nChannels * reduction[1]) \div reduction[2]

\* _make_dense that forgets nChannels += growthRate inside the loop
make_dense_no_growth(nChannels, growthRate, nDenseBlocks, bottleneck) ==
    [i \in 1..Max(nDenseBlocks, 0) |->
        [kind |-> IF bottleneck THEN "Bottleneck" ELSE "SingleLayer",
         nChannels |-> nChannels,
         growthRate |-> growthRate]]

\* _make_dense: range(int(nDenseBlocks)) layers, the i-th built for the
\* channels the layers before it have accumulated
make_dense(nChannels, growthRate, nDenseBlocks, bottleneck) ==
    [i \in 1..Max(nDenseBlocks, 0) |->
        [kind |-> IF bottleneck THEN "Bottleneck" ELSE "SingleLayer",
         nChannels |-> nChannels + (i - 1) * growthRate,
         growthRate |-> growthRate]]

\* the modules of __init__, in the order of its statements
DenseNetBase(p, nClasses) ==
    LET growthRate == p.growthRate
        reduction == p.reduction
        bottleneck == BottleneckFlag(p)
        nDenseBlocks == NDenseBlocks(p.depth, bottleneck)
        c0 == InitialChannels(growthRate)
        c1 == c0 + BlockGrowth(nDenseBlocks, growthRate)
        o1 == ReducedChannels(c1, reduction)
        c2 == o1 + BlockGrowth(nDenseBlocks, growthRate)
        o2 == ReducedChannels(c2, reduction)
        c3 == o2 + BlockGrowth(nDenseBlocks, growthRate)
    IN  [nDenseBlocks |-> nDenseBlocks,
         conv1 |-> [nChannels |-> 1, nOutChannels |-> c0],
         dense1 |-> make_dense(c0, growthRate, nDenseBlocks, bottleneck),
         trans1 |-> [nChannels |-> c1, nOutChannels |-> o1],
         dense2 |-> make_dense(o1, growthRate, nDenseBlocks, bottleneck),
         trans2 |-> [nChannels |-> c2, nOutChannels |-> o2],
         dense3 |-> make_dense(o2, growthRate, nDenseBlocks, bottleneck),
         bn1 |-> c3,
         fc |-> [in_features |-> c3, out_features |-> nClasses]]

NoNet == [nDenseBlocks |-> 0]

\* every nn.Conv2d of the network as <<in_channels, out_channels>>
Convs(n) ==
    {<<n.conv1.nChannels, n.conv1.nOutChannels>>,
     <<n.trans1.nChannels, n.trans1.nOutChannels>>,
     <<n.trans2.nChannels, n.trans2.nOutChannels>>}
    \cup UNION {
        UNION {
            IF n[d][i].kind = "Bottleneck"
            THEN {<<n[d][i].nChannels, 4 * n[d][i].growthRate>>,
                  <<4 * n[d][i].growthRate, n[d][i].growthRate>>}
            ELSE {<<n[d][i].nChannels, n[d][i].growthRate>>}
            : i \in DOMAIN n[d]}
        : d \in {"dense1", "dense2", "dense3"}}

\* num_features of every nn.BatchNorm2d, and in_features of the nn.Linear
Features(n) ==
    {n.trans1.nChannels, n.trans2.nChannels, n.bn1, n.fc.in_features}
    \cup UNION {{n[d][i].nChannels : i \in DOMAIN n[d]}
                : d \in {"dense1", "dense2", "dense3"}}

\* Construction raises: a negative size cannot be allocated, and the
\* initialisation loop divides 2. by kernel area * out_channels, which raises
\* ZeroDivisionError for a convolution of 0 output channels.
CtorRaises(n) ==
    \/ \E c \in Convs(n) : c[1] < 0 \/ c[2] <= 0
    \/ \E f \in Features(n) : f < 0
    \/ n.fc.out_features < 0

\* A module of 0 input features: whether torch builds it depends on its version.
ZeroSized(n) ==
    \/ \E c \in Convs(n) : c[1] = 0
    \/ \E f \in Features(n) : f = 0

Construct ==
    /\ pc = "new"
    /\ net' = DenseNetBase(params, num_classes)
    /\ \E accepted \in BOOLEAN :
        /\ (~ZeroSized(net')) => accepted
        /\ IF CtorRaises(net') \/ ~accepted
           THEN pc' = "ctor_error" /\ err' = "construction"
           ELSE pc' = "built" /\ err' = ""
    /\ UNCHANGED <<params, num_classes, s, idx, out, evalVars>>

(***************************************************************************)
(* DenseNetBase.forward, one module application per step.                  *)
(***************************************************************************)
DenseStages == {"dense1", "dense2", "dense3"}

StageAfter(stage) ==
    CASE stage = "dense1" -> "trans1"
      [] stage = "trans1" -> "dense2"
      [] stage = "dense2" -> "trans2"
      [] stage = "trans2" -> "dense3"
      [] stage = "dense3" -> "head"

\* nn.Sequential runs its layers in order; an exhausted (or empty) one returns
Enter(stage, i) ==
    IF stage \in DenseStages /\ i > Len(net[stage]) THEN StageAfter(stage) ELSE stage

Raise(kind) ==
    /\ pc' = "fwd_error"
    /\ err' = kind
    /\ UNCHANGED <<out, idx>>

\* out = self.conv1(s): kernel 3, padding 1 keeps the spatial size
ForwardConv1 ==
    /\ pc = "built"
    /\ IF s[2] # net.conv1.nChannels
       THEN Raise("channels")
       ELSE /\ out' = <<s[1], net.conv1.nOutChannels, s[3], s[4]>>
            /\ pc' = Enter("dense1", 1)
            /\ idx' = 1
            /\ err' = ""
    /\ UNCHANGED <<params, num_classes, s, net, evalVars>>

\* Bottleneck.forward / SingleLayer.forward: bn1 and conv1 need the channels
\* the layer was built for; torch.cat((x, out), 1) appends growthRate channels
ForwardDenseLayer ==
    /\ pc \in DenseStages
    /\ LET layer == net[pc][idx]
       IN  IF out[2] # layer.nChannels
           THEN Raise("channels")
           ELSE /\ out' = [out EXCEPT ![2] = out[2] + layer.growthRate]
                /\ pc' = Enter(pc, idx + 1)
                /\ idx' = IF Enter(pc, idx + 1) = pc THEN idx + 1 ELSE 1
                /\ err' = ""
    /\ UNCHANGED <<params, num_classes, s, net, evalVars>>

\* F.avg_pool2d(x, k): floor((size - k)/k) + 1, an error below the window
Pooled(size, k) == size \div k

\* Transition.forward: bn1, 1x1 conv1 to nOutChannels, F.avg_pool2d(out, 2)
ForwardTransition ==
    /\ pc \in {"trans1", "trans2"}
    /\ LET t == net[pc]
       IN  IF out[2] # t.nChannels
           THEN Raise("channels")
           ELSE IF out[3] < 2 \/ out[4] < 2
           THEN Raise("pool")
           ELSE /\ out' = <<out[1], t.nOutChannels,
                            Pooled(out[3], 2), Pooled(out[4], 2)>>
                /\ pc' = Enter(StageAfter(pc), 1)
                /\ idx' = 1
                /\ err' = ""
    /\ UNCHANGED <<params, num_classes, s, net, evalVars>>

\* torch.squeeze: every dimension of size 1 is removed
Squeeze(shape) == SelectSeq(shape, LAMBDA d : d # 1)

\* out = torch.squeeze(F.avg_pool2d(F.relu(self.bn1(out)), 8))
ForwardPool ==
    /\ pc = "head"
    /\ IF out[2] # net.bn1
       THEN Raise("channels")
       ELSE IF out[3] < 8 \/ out[4] < 8
       THEN Raise("pool")
       ELSE /\ out' = Squeeze(<<out[1], out[2], Pooled(out[3], 8), Pooled(out[4], 8)>>)
            /\ pc' = "view"
            /\ err' = ""
            /\ UNCHANGED idx
    /\ UNCHANGED <<params, num_classes, s, net, evalVars>>

\* out = out.view([out.size()[0], -1]): size()[0] of a 0-dim tensor raises
ForwardView ==
    /\ pc = "view"
    /\ IF out = <<>>
       THEN Raise("index")
       ELSE /\ out' = <<out[1], Prod(out) \div out[1]>>
            /\ pc' = "fc"
            /\ err' = ""
            /\ UNCHANGED idx
    /\ UNCHANGED <<params, num_classes, s, net, evalVars>>

\* return self.fc(out): the last dimension must be the head's in_features
ForwardFc ==
    /\ pc = "fc"
    /\ IF out[2] # net.fc.in_features
       THEN Raise("shape")
       ELSE /\ out' = <<out[1], net.fc.out_features>>
            /\ pc' = "done"
            /\ err' = ""
            /\ UNCHANGED idx
    /\ UNCHANGED <<params, num_classes, s, net, evalVars>>

NoTensor == [shape |-> <<1, 1>>, data |-> [p \in {<<1, 1>>} |-> 0]]

NoResult == [kind |-> "none"]

Init ==
    /\ params \in SmallParams \cup ReferenceParams
    /\ num_classes \in 1..MaxClasses
    /\ \E b \in 1..MaxBatch, hw \in InputSizes : s = <<b, 1, hw[1], hw[2]>>
    /\ pc = "new"
    /\ idx = 1
    /\ net = NoNet
    /\ out = <<>>
    /\ err = ""
    /\ outputs = NoTensor
    /\ labels = NoTensor
    /\ called = "none"
    /\ result = NoResult

Next ==
    \/ Construct
    \/ ForwardConv1
    \/ ForwardDenseLayer
    \/ ForwardTransition
    \/ ForwardPool
    \/ ForwardView
    \/ ForwardFc

Spec == Init /\ [][Next]_vars

(***************************************************************************)
(* Properties of the constructor and the forward pass.                     *)
(***************************************************************************)
NominalInput == s[3] = NominalHeight /\ s[4] = NominalWidth

\* floor(floor((depth-4)/3)/2), written out from the configuration
HalvedLayerCount == ((params.depth - 4) \div 3) \div 2

ValidConfiguration ==
    /\ params.growthRate >= 1
    /\ HalvedLayerCount >= 1
    /\ params.reduction[1] > 0
    /\ params.reduction[1] <= params.reduction[2]
    /\ num_classes >= 1
    /\ s[1] >= 1

\* C1: for every valid configuration and batch size, forward on a
\* batch x 1 x 128 x 192 input ends without error with a tensor of shape
\* (batch, numClasses): the features reaching the linear head equal its
\* in_features and the first dimension is still the batch size.
C1_NominalForwardShape ==
    (ValidConfiguration /\ NominalInput) =>
        /\ pc = "fc" => (out[2] = net.fc.in_features /\ out[1] = s[1])
        /\ pc \in {"fwd_error", "done"} =>
              (pc = "done" /\ out = <<s[1], num_classes>>)

\* the channel count the closed-form derivation gives for a forward position
DerivedChannels(stage, i) ==
    LET g == params.growthRate
        n == HalvedLayerCount
        r == params.reduction
        c1 == 2 * g + n * g
        o1 == (c1 * r[1]) \div r[2]
        c2 == o1 + n * g
        o2 == (c2 * r[1]) \div r[2]
    IN  CASE stage = "dense1" -> 2 * g + (i - 1) * g
          [] stage = "trans1" -> c1
          [] stage = "dense2" -> o1 + (i - 1) * g
          [] stage = "trans2" -> c2
          [] stage = "dense3" -> o2 + (i - 1) * g
          [] stage = "head" -> o2 + n * g

\* the channels of the tensor that arrives equal the channels the layer about
\* to run was built for, and the channels the derivation gives
ChannelsMatch ==
    /\ err # "channels"
    /\ pc = "built" => s[2] = net.conv1.nChannels
    /\ pc \in DenseStages =>
        /\ out[2] = net[pc][idx].nChannels
        /\ out[2] = DerivedChannels(pc, idx)
    /\ pc \in {"trans1", "trans2"} =>
        /\ out[2] = net[pc].nChannels
        /\ out[2] = DerivedChannels(pc, 1)
    /\ pc = "head" =>
        /\ out[2] = net.bn1
        /\ out[2] = net.fc.in_features
        /\ out[2] = DerivedChannels(pc, 1)

\* C2 as stated: for every configuration whose construction succeeds, the
\* channels arriving at each layer of the forward pass equal the channels the
\* layer was constructed with, so no channel mismatch appears at forward time.
C2_ChannelsMatchEveryConfiguration == ChannelsMatch

\* C2 amended: the same, for the configurations with depth >= 4 (no negative
\* layer count) or reduction <= 1.
C2_ChannelsMatch ==
    (params.depth >= 4 \/ params.reduction[1] <= params.reduction[2])
        => ChannelsMatch

C2_Witness ==
    /\ pc = "head"
    /\ Len(net.dense3) >= 2
    /\ params.reduction = <<3, 4>>
    /\ out[2] = net.bn1

\* C3: for depth 100, growth rate 12, reduction 0.5 the constructor builds 16
\* layers per dense block and the channels 24, 216, 108, 300, 150, 342.
C3_ReferenceChannels ==
    (pc # "new" /\ params.depth = 100 /\ params.growthRate = 12
        /\ params.reduction = <<1, 2>>) =>
        /\ net.nDenseBlocks = 16
        /\ Len(net.dense1) = 16 /\ Len(net.dense2) = 16 /\ Len(net.dense3) = 16
        /\ net.conv1.nOutChannels = 24
        /\ net.dense1[1].nChannels = 24
        /\ net.trans1 = [nChannels |-> 216, nOutChannels |-> 108]
        /\ net.dense2[1].nChannels = 108
        /\ net.trans2 = [nChannels |-> 300, nOutChannels |-> 150]
        /\ net.dense3[1].nChannels = 150
        /\ net.dense3[16].nChannels = 330
        /\ net.bn1 = 342
        /\ net.fc.in_features = 342

C3_Witness ==
    /\ params.depth = 100 /\ params.growthRate = 12 /\ params.reduction = <<1, 2>>
    /\ pc = "head"
    /\ out[2] = 342

\* C9 as stated: a configuration whose layer count is zero or negative never
\* yields a network that constructs and completes a forward pass.
C9_ZeroOrNegativeAlwaysFails == HalvedLayerCount <= 0 => pc # "done"

\* C9 amended: a configuration whose layer count is negative (depth < 4) is
\* rejected by no validation, only by a layer that cannot be built, and never
\* completes a forward pass.
C9_NegativeAlwaysFails ==
    HalvedLayerCount < 0 =>
        /\ pc # "done"
        /\ pc = "ctor_error" => (CtorRaises(net) \/ ZeroSized(net))

C9_Witness ==
    /\ HalvedLayerCount < 0
    /\ pc = "fwd_error"
    /\ err = "channels"

\* C10: the network does not depend on params.bottleneck: the layer count is
\* halved, every dense layer is a Bottleneck and the modules are those built
\* for any other bottleneck setting.
C10_BottleneckIgnored ==
    pc # "new" =>
        /\ net.nDenseBlocks = HalvedLayerCount
        /\ \A d \in DenseStages : \A i \in DOMAIN net[d] :
              net[d][i].kind = "Bottleneck"
        /\ \A b \in BottleneckSettings :
              DenseNetBase([params EXCEPT !.bottleneck = b], num_classes) = net

C10_Witness ==
    /\ pc = "built"
    /\ params.bottleneck = "false"
    /\ Len(net.dense1) >= 2

(***************************************************************************)
(* loss_fn, accuracy, precision, recall.  A tensor is [shape, data] with   *)
(* data a function of the positions <<row, column>>; values are in halves. *)
(***************************************************************************)
Logits == {-3, 1, 2}

LabelValues == {0, 1, 2}

Shapes == {sh \in (1..MaxElems) \X (1..MaxElems) : sh[1] * sh[2] <= MaxElems}

Positions(shape) == (1..shape[1]) \X (1..shape[2])

Tensors(values) ==
    UNION {[shape : {sh}, data : [Positions(sh) -> values]] : sh \in Shapes}

\* torch broadcasting of two 2-d tensors in an elementwise operation
Compatible(a, b) == \A k \in 1..2 : a[k] = b[k] \/ a[k] = 1 \/ b[k] = 1

BroadcastShape(a, b) == <<Max(a[1], b[1]), Max(a[2], b[2])>>

At(t, p) ==
    t.data[<<IF t.shape[1] = 1 THEN 1 ELSE p[1],
             IF t.shape[2] = 1 THEN 1 ELSE p[2]>>]

\* a check of the element counts only
NumelMismatch(lab, outp) == Prod(lab.shape) # Prod(outp.shape)

\* if labels.size() != outputs.size()
ShapeMismatch(lab, outp) == lab.shape # outp.shape

\* outputs.clamp(min=0): the negation dropped
MaxValOfOutputs(x) == Max(x, 0)

\* max_val = (-outputs).clamp(min=0)
MaxVal(x) == Max(0 - x, 0)

\* outputs - outputs * labels + max_val
\*   + ((-max_val).exp() + (-outputs - max_val).exp()).log()
\* for one element: lin4 is four times the part outside the logarithm (x and
\* z are in halves), e1 and e2 are the two exponents, in halves
LossTerm(x, z) ==
    [lin4 |-> 2 * x - x * z + 2 * MaxVal(x),
     e1 |-> 0 - MaxVal(x),
     e2 |-> 0 - x - MaxVal(x)]

\* loss_fn: the shape check, then loss.mean() over all elements
loss_fn(outp, lab) ==
    IF ShapeMismatch(lab, outp)
    THEN [kind |-> "ValueError"]
    ELSE IF ~Compatible(outp.shape, lab.shape)
    THEN [kind |-> "RuntimeError"]
    ELSE LET sh == BroadcastShape(outp.shape, lab.shape)
         IN  [kind |-> "scalar",
              n |-> Cardinality(Positions(sh)),
              terms |-> [p \in Positions(sh) |-> LossTerm(At(outp, p), At(lab, p))]]

\* outputs.data.ge(0.5)
GeHalf(x) == IF x >= 1 THEN 1 ELSE 0

\* outputs.data.gt(0.5), a byte per element
Gt(x) == IF x > 1 THEN 1 ELSE 0

\* labels.data.byte(): the float truncated to an unsigned 8-bit integer
Byte(z) == (z \div 2) % 256

\* a comparison of the widened value with the scalar as it is
EqValue(v, scalar) == v = scalar

\* ByteTensor.eq(scalar): the scalar is converted to the tensor's element
\* type, unsigned 8-bit, before the comparison (-1 becomes 255)
EqScalar(v, scalar) == v = scalar % 256

\* tp, fp, fn, tn: byte arithmetic wraps modulo 256, .sum() counts the ones
Counts(outp, lab) ==
    LET P == Positions(BroadcastShape(outp.shape, lab.shape))
        plus(p) == (Gt(At(outp, p)) + Byte(At(lab, p))) % 256
        minus(p) == (Gt(At(outp, p)) - Byte(At(lab, p))) % 256
    IN  [tp |-> Cardinality({p \in P : EqScalar(plus(p), 2)}),
         fp |-> Cardinality({p \in P : EqScalar(minus(p), 1)}),
         fn |-> Cardinality({p \in P : EqScalar(minus(p), -1)}),
         tn |-> Cardinality({p \in P : EqScalar(plus(p), 0)})]

NoCounts == [tp |-> 0, fp |-> 0, fn |-> 0, tn |-> 0]

\* What .sum() of a tensor returns depends on the torch the module runs on: a
\* Python number, whose division by zero raises ZeroDivisionError, or a 0-dim
\* tensor, whose division by zero raises nothing and yields nan (0/0) or inf.
TorchSums == {"number", "tensor"}

\* a / b on two counts
Div(a, b, sums) ==
    IF b # 0 THEN [kind |-> "value", num |-> a, den |-> b]
    ELSE IF sums = "number" THEN [kind |-> "ZeroDivisionError"]
    ELSE IF a = 0 THEN [kind |-> "nan"]
    ELSE [kind |-> "inf"]

\* acc = (tp + tn) / (tp + tn + fp + fn)
Acc(c, sums) == Div(c.tp + c.tn, c.tp + c.tn + c.fp + c.fn, sums)

Zero == [kind |-> "value", num |-> 0, den |-> 1]

accuracy(outp, lab, sums) ==
    IF ~Compatible(outp.shape, lab.shape) THEN [kind |-> "RuntimeError"]
    ELSE Acc(Counts(outp, lab), sums)

\* acc is computed outside the try; except ZeroDivisionError: prec = 0.0
precision(outp, lab, sums) ==
    IF ~Compatible(outp.shape, lab.shape) THEN [kind |-> "RuntimeError"]
    ELSE LET c == Counts(outp, lab)
             prec == Div(c.tp, c.tp + c.fp, sums)
         IN  IF Acc(c, sums).kind = "ZeroDivisionError" THEN Acc(c, sums)
             ELSE IF prec.kind = "ZeroDivisionError" THEN Zero
             ELSE prec

\* acc is computed outside the try; except ZeroDivisionError: rec = 0.0
recall(outp, lab, sums) ==
    IF ~Compatible(outp.shape, lab.shape) THEN [kind |-> "RuntimeError"]
    ELSE LET c == Counts(outp, lab)
             rec == Div(c.tp, c.tp + c.fn, sums)
         IN  IF Acc(c, sums).kind = "ZeroDivisionError" THEN Acc(c, sums)
             ELSE IF rec.kind = "ZeroDivisionError" THEN Zero
             ELSE rec

CountsOrNone(outp, lab) ==
    IF Compatible(outp.shape, lab.shape) THEN Counts(outp, lab) ELSE NoCounts

CallLoss ==
    /\ called = "none"
    /\ called' = "loss_fn"
    /\ result' = [ret |-> loss_fn(outputs, labels), counts |-> NoCounts,
                  sums |-> "unused"]
    /\ UNCHANGED <<outputs, labels, netVars>>

CallAccuracy ==
    /\ called = "none"
    /\ called' = "accuracy"
    /\ \E sums \in TorchSums :
         result' = [ret |-> accuracy(outputs, labels, sums),
                    counts |-> CountsOrNone(outputs, labels), sums |-> sums]
    /\ UNCHANGED <<outputs, labels, netVars>>

CallPrecision ==
    /\ called = "none"
    /\ called' = "precision"
    /\ \E sums \in TorchSums :
         result' = [ret |-> precision(outputs, labels, sums),
                    counts |-> CountsOrNone(outputs, labels), sums |-> sums]
    /\ UNCHANGED <<outputs, labels, netVars>>

CallRecall ==
    /\ called = "none"
    /\ called' = "recall"
    /\ \E sums \in TorchSums :
         result' = [ret |-> recall(outputs, labels, sums),
                    counts |-> CountsOrNone(outputs, labels), sums |-> sums]
    /\ UNCHANGED <<outputs, labels, netVars>>

InitEval ==
    /\ outputs \in Tensors(Logits)
    /\ labels \in Tensors(LabelValues)
    /\ called = "none"
    /\ result = NoResult
    /\ params = [growthRate |-> 1, depth |-> 4, reduction |-> <<1, 1>>,
                 bottleneck |-> "absent"]
    /\ num_classes = 1
    /\ s = <<1, 1, 32, 32>>
    /\ pc = "idle"
    /\ idx = 1
    /\ net = NoNet
    /\ out = <<>>
    /\ err = ""

NextEval ==
    \/ CallLoss
    \/ CallAccuracy
    \/ CallPrecision
    \/ CallRecall

SpecEval == InitEval /\ [][NextEval]_vars

(***************************************************************************)
(* Properties of the loss and the metrics.                                 *)
(***************************************************************************)
SameShape == outputs.shape = labels.shape

BinaryLabels == \A p \in DOMAIN labels.data : labels.data[p] \in {0, 2}

Metrics == {"accuracy", "precision", "recall"}

\* positions with thresholded prediction a (output > 0.5) and label b
Confusion(a, b) ==
    Cardinality({p \in DOMAIN outputs.data :
        /\ (outputs.data[p] > 1) = (a = 1)
        /\ labels.data[p] = 2 * b})

\* C4: loss_fn raises the shape-mismatch error for every pair whose shapes
\* differ, and returns one scalar, the mean over all elements, for every pair
\* whose shapes are identical.
C4_ShapeCheck ==
    called = "loss_fn" =>
        /\ ~SameShape => result.ret.kind = "ValueError"
        /\ SameShape =>
            /\ result.ret.kind = "scalar"
            /\ result.ret.n = Prod(outputs.shape)
            /\ DOMAIN result.ret.terms = DOMAIN outputs.data

C4_Witness ==
    /\ called = "loss_fn"
    /\ outputs.shape = <<1, 3>>
    /\ labels.shape = <<1, 2>>
    /\ result.ret.kind = "ValueError"

\* C5: for same-shape outputs and binary labels the four counts are the
\* confusion-matrix counts over all positions jointly (fn included), they sum
\* to the number of positions, accuracy is (tp+tn)/(tp+tn+fp+fn) and accuracy
\* plus (fp+fn)/(tp+tn+fp+fn) is 1.
C5_ConfusionCounts ==
    (called \in Metrics /\ SameShape /\ BinaryLabels) =>
        LET c == result.counts
            total == Prod(outputs.shape)
        IN  /\ c.tp = Confusion(1, 1)
            /\ c.fp = Confusion(1, 0)
            /\ c.fn = Confusion(0, 1)
            /\ c.tn = Confusion(0, 0)
            /\ c.tp + c.fp + c.fn + c.tn = total
            /\ called = "accuracy" =>
                /\ result.ret.kind = "value"
                /\ result.ret.num * total
                      = (Confusion(1, 1) + Confusion(0, 0)) * result.ret.den
                /\ result.ret.num * total + (c.fp + c.fn) * result.ret.den
                      = result.ret.den * total

C5_Witness ==
    /\ called = "accuracy"
    /\ SameShape /\ BinaryLabels
    /\ result.counts.fn >= 1
    /\ result.counts.fp >= 1
    /\ result.counts.tp >= 1

\* C6: precision returns 0.0 whenever tp + fp = 0 and recall returns 0.0
\* whenever tp + fn = 0, neither raising nor returning nan or an infinity.
C6_ZeroDenominatorGuard ==
    (SameShape /\ BinaryLabels) =>
        /\ (called = "precision" /\ Confusion(1, 1) + Confusion(1, 0) = 0)
              => result.ret = Zero
        /\ (called = "recall" /\ Confusion(1, 1) + Confusion(0, 1) = 0)
              => result.ret = Zero

\* C7: when the thresholded predictions equal the binary labels at every
\* position and some label is positive, precision, recall and accuracy are 1.
C7_PerfectPrediction ==
    (/\ called \in Metrics
     /\ SameShape /\ BinaryLabels
     /\ \A p \in DOMAIN outputs.data :
            (outputs.data[p] > 1) = (labels.data[p] = 2)
     /\ \E p \in DOMAIN labels.data : labels.data[p] = 2) =>
        /\ result.ret.kind = "value"
        /\ result.ret.num = result.ret.den

C7_Witness ==
    /\ called = "precision"
    /\ SameShape /\ BinaryLabels
    /\ \A p \in DOMAIN outputs.data :
           (outputs.data[p] > 1) = (labels.data[p] = 2)
    /\ \E p \in DOMAIN labels.data : labels.data[p] = 2
    /\ \E p \in DOMAIN outputs.data : outputs.data[p] = 1
    /\ result.ret = [kind |-> "value", num |-> 1, den |-> 1]

\* C8: each element of the loss is max(x,0) - x*z + log(1 + exp(-|x|)): the
\* part outside the logarithm is max(x,0) - x*z and is not negative, and the
\* two exponents are 0 and -|x|, so neither is positive.
C8_StableLoss ==
    (called = "loss_fn" /\ result.ret.kind = "scalar") =>
        \A p \in DOMAIN result.ret.terms :
            LET x == outputs.data[p]
                z == labels.data[p]
                t == result.ret.terms[p]
            IN  /\ t.lin4 = 2 * Max(x, 0) - x * z
                /\ {t.e1, t.e2} = {0, 0 - Abs(x)}
                /\ t.e1 <= 0
                /\ t.e2 <= 0
                /\ t.lin4 >= 0

C8_Witness ==
    /\ called = "loss_fn"
    /\ result.ret.kind = "scalar"
    /\ \E p, q \in DOMAIN outputs.data :
        /\ outputs.data[p] < 0 /\ labels.data[p] = 1
        /\ outputs.data[q] > 0 /\ labels.data[q] = 2
        /\ result.ret.terms[p].e1 < 0
        /\ result.ret.terms[q].e2 < 0

====
